---- MODULE Spec2Model ----
\* Videra-SDK upload client (src/main.go): master pool, session negotiation,
\* chunked transfer loop and retry loop, with the masters and the data node as
\* a nondeterministic environment.
EXTENDS Integers, Sequences, FiniteSets, TLC

\* ------------------------------------------------------------------ bounds
MaxMasters == 3       \* master addresses given on the command line: 0..MaxMasters
MaxFileSize == 2      \* bytes of the video file: 0..MaxFileSize
MaxModelFileSize == 1 \* bytes of each file of a model bundle
MaxAppends == 4       \* append requests sent per trial
MaxOffsetHdr == 1     \* largest Offset header value the data node sends unprompted
MaxChunkHdr == 1      \* largest Max-Request-Size header value the data node sends

\* ------------------------------------------------------- program constants
defaultMaxRetries == 3
StatusOK == 200
StatusCreated == 201
StatusOther == 416    \* stands for every status that is neither 200 nor 201
\* var chunkSize = int64(4 << 20), scaled down to bytes the model can enumerate
DefaultChunkSize == 2
\* A faulty variant: the config and the code in the wrong order.
modelUploadOrder_swapped == <<"model", "code", "config">>
modelUploadOrder == <<"model", "config", "code">>
videoUploadOrder == <<"video">>

\* ----------------------------------------------------------- header values
\* A header is absent (Get returns ""), a decimal numeral, or other text.
Absent == [k |-> "absent", v |-> 0]
Garbage == [k |-> "text", v |-> 0]
Num(n) == [k |-> "num", v |-> n]

\* strconv.FormatInt(n, 10)
FormatInt(n) == Num(n)
\* strconv.ParseInt(s, 10, 64) with the error dropped: 0 when s is no numeral
ParseInt(h) == IF h.k = "num" THEN h.v ELSE 0
\* res.Header.Get(name) != ""
Present(h) == h.k # "absent"

OffsetHdrs == {Garbage, Num(-1)} \cup {Num(n) : n \in 0..MaxOffsetHdr}
ChunkHdrs == {Garbage, Num(-1)} \cup {Num(n) : n \in 0..MaxChunkHdr}

\* ------------------------------------------------------------------- files
Min(a, b) == IF a < b THEN a ELSE b

\* The number a file is known by: the video is file 1 of its upload; a model
\* bundle is model, config, code.
FileNo(label) ==
  CASE label = "video" -> 1
    [] label = "model" -> 1
    [] label = "config" -> 2
    [] label = "code" -> 3

\* Byte k of the file with the given label: every byte of every file is distinct.
ByteOf(label, k) == 10 * FileNo(label) + k
Content(label, size) == [k \in 1..size |-> ByteOf(label, k)]
OwnerOf(byte) == byte \div 10

\* file.Read(buffer) at position pos of a file of the given size: the number of
\* bytes read; a zero-length buffer reads 0 bytes without error.
ReadLen(buflen, pos, size) ==
  IF buflen = 0 \/ pos >= size THEN 0 ELSE Min(buflen, size - pos)
\* file.Read reports io.EOF: nothing left and the buffer is not empty.
ReadEOF(buflen, pos, size) == buflen > 0 /\ pos >= size

\* A faulty variant: rewinds to the start of the file.
Seek_rewind(pos, off) == 0
\* file.Seek(off, 0) with the error dropped: a negative offset fails and leaves
\* the position where it was.
Seek(pos, off) == IF off >= 0 THEN off ELSE pos

RECURSIVE SumSizes(_, _)
SumSizes(order, sizes) ==
  IF order = <<>> THEN 0
  ELSE sizes[Head(order)] + SumSizes(Tail(order), sizes)

RECURSIVE Concat(_, _)
\* The logical stream of a manifest: its files' contents in manifest order.
Concat(order, sizes) ==
  IF order = <<>> THEN <<>>
  ELSE Content(Head(order), sizes[Head(order)]) \o Concat(Tail(order), sizes)

\* ------------------------------------------------------------------- state
VARIABLES
  args,            \* flag.Args(): the master addresses on the command line
  mode,            \* --mode
  fsize,           \* size of the local file behind each label
  cluster,         \* the data node addresses the masters hand out
  mastersURLS, lastUsedMaster, masterURL, uploadURL, chunkSize,  \* globals
  pc, trial,       \* where the process is; the retry loop's counter
  id, idx, buflen, offset, pos,   \* uploadFiles: id, idx, len(buffer), offset, file position
  req,             \* the append request in flight
  session,         \* the session-open exchange of this trial
  stored, honest, resynced,       \* the data node's file, and whether it kept to the protocol
  lastExch,        \* the previous append of this trial and its answer
  limit,           \* Max-Request-Size of the last chunk-size correction of this trial
  acked,           \* per manifest file, bytes of appends answered 200 or 201
  eofSeen,         \* manifest files read to end-of-file in this trial
  ret,             \* what uploadFiles returned in this trial, and from which line
  attempts,        \* masters asked by the current run of failed discoveries
  nAppends

globals == <<mastersURLS, lastUsedMaster, masterURL, uploadURL, chunkSize>>
inputs == <<args, mode, fsize, cluster>>
locals == <<id, idx, buflen, offset, pos, req>>
observed == <<session, stored, honest, resynced, lastExch, limit, acked, eofSeen,
              ret, nAppends>>
vars == <<inputs, globals, pc, trial, locals, observed, attempts>>

Labels == {"video", "model", "config", "code"}
NoReq == [sent |-> FALSE, url |-> "", id |-> 0, offset |-> Absent, body |-> <<>>,
          file |-> 0, limit |-> Absent]
NoExch == [sent |-> FALSE, offset |-> Absent, len |-> 0, status |-> 0,
           off |-> Absent, max |-> Absent]
\* node: the address this trial's discovery returned; asked, status: whether
\* the session-open was answered and how (0: no answer); id, max: the ID and
\* Max-Request-Size headers of its 201.
NoSession == [node |-> "", asked |-> FALSE, status |-> 0, open |-> FALSE, id |-> 0,
              filesize |-> Absent, max |-> Absent]
NoRet == [err |-> "none", line |-> 0]
NoAcked == [i \in 1..Len(modelUploadOrder) |-> 0]

\* The manifest the entry point hands to uploadFiles.
uploadOrder == IF mode = "model" THEN modelUploadOrder ELSE videoUploadOrder

FreshObserved ==
  /\ stored' = <<>> /\ honest' = TRUE /\ resynced' = FALSE
  /\ lastExch' = NoExch /\ limit' = Absent /\ acked' = NoAcked /\ eofSeen' = {}
  /\ ret' = NoRet /\ nAppends' = 0

FreshLocals ==
  /\ id' = 0 /\ idx' = 0 /\ buflen' = 0 /\ offset' = 0 /\ pos' = 0 /\ req' = NoReq

Sizes(m, maxsize) ==
  IF m = "model"
  THEN {[l \in Labels |-> IF l = "video" THEN 0 ELSE s[FileNo(l)]] :
          s \in [1..Len(modelUploadOrder) -> 0..maxsize]}
  ELSE {[l \in Labels |-> IF l = "video" THEN n ELSE 0] : n \in 0..maxsize}

\* The process before main runs, for a command line, a file system and a
\* cluster drawn from the given sets.
InitWith(pools, modes, maxsize, clusters) ==
  /\ args \in {[i \in 1..n |-> i] : n \in pools}
  /\ mode \in modes
  /\ fsize \in Sizes(mode, maxsize)
  /\ cluster \in clusters
  /\ mastersURLS = <<>> /\ lastUsedMaster = -1 /\ masterURL = 0
  /\ uploadURL = "" /\ chunkSize = DefaultChunkSize
  /\ pc = "main" /\ trial = 0
  /\ id = 0 /\ idx = 0 /\ buflen = 0 /\ offset = 0 /\ pos = 0 /\ req = NoReq
  /\ session = NoSession /\ stored = <<>> /\ honest = TRUE /\ resynced = FALSE
  /\ lastExch = NoExch /\ limit = Absent /\ acked = NoAcked /\ eofSeen = {}
  /\ ret = NoRet /\ attempts = <<>> /\ nAppends = 0

\* ------------------------------------------------------------- master pool
\* A faulty variant: the cursor is set once and never advanced.
NextMaster_stuck(last, n) == IF last < 0 THEN 0 ELSE last
\* lastUsedMaster = (lastUsedMaster + 1) % len(mastersURLS)
NextMaster(last, n) == (last + 1) % n

\* updateMasterURL over the pool `urls`
updateMasterURL(urls) ==
  /\ lastUsedMaster' = NextMaster(lastUsedMaster, Len(urls))
  /\ masterURL' = urls[lastUsedMaster' + 1]

\* main: the masters come from the command line; no master, or no valid mode,
\* is fatal before any request.
main ==
  /\ pc = "main"
  /\ IF Len(args) = 0
     THEN /\ pc' = "halted"
          /\ UNCHANGED <<mastersURLS, lastUsedMaster, masterURL>>
     ELSE /\ mastersURLS' = mastersURLS \o args
          /\ updateMasterURL(mastersURLS')
          /\ pc' = IF mode \in {"video", "model"} THEN "discover" ELSE "halted"
  /\ UNCHANGED <<inputs, uploadURL, chunkSize, trial, locals, observed, attempts>>

\* -------------------------------------------------------- retry orchestrator
\* A faulty variant: the bound is exclusive.
LoopCond_exclusive(t) == t < defaultMaxRetries
\* for trial := 0; trial <= defaultMaxRetries; trial, _ = trial+1, <-ticker.C
LoopCond(t) == t <= defaultMaxRetries

\* `continue`: wait for the tick, count the trial, leave the loop when exhausted
\* (log.Fatal("File not uploaded")).
TrialFailed ==
  /\ trial' = trial + 1
  /\ pc' = IF LoopCond(trial + 1) THEN "discover" ELSE "fatal"

\* A faulty variant: the `return` after "Upload successful" is missing.
AfterUpload_noReturn(err) == TrialFailed
\* UploadVideo / UploadModel on the value uploadFiles returned.
AfterUpload(err) ==
  IF err = "nil" THEN trial' = trial /\ pc' = "success" ELSE TrialFailed

\* A faulty variant: the body is assigned to a new local.
SetUploadURL_shadowed(cur, body) == cur
\* uploadURL = body
SetUploadURL(cur, body) == body

\* updateUploadURL and the orchestrator's reaction: GET to the current master.
updateUploadURL ==
  /\ pc = "discover"
  /\ FreshObserved
  /\ \/ \E node \in cluster :            \* 200: the body is the upload address
          /\ uploadURL' = SetUploadURL(uploadURL, node)
          /\ session' = [NoSession EXCEPT !.node = node]
          /\ pc' = "init" /\ trial' = trial
          /\ attempts' = <<>>
          /\ UNCHANGED <<lastUsedMaster, masterURL>>
     \/ /\ attempts' = Append(attempts, masterURL)  \* transport error, or not 200
        /\ session' = NoSession
        /\ updateMasterURL(mastersURLS)
        /\ TrialFailed
        /\ UNCHANGED uploadURL
     \/ /\ pc' = "halted"                   \* the body cannot be read: log.Fatal
        /\ session' = NoSession
        /\ UNCHANGED <<trial, attempts, lastUsedMaster, masterURL, uploadURL>>
  /\ UNCHANGED <<inputs, mastersURLS, chunkSize, locals>>

\* ------------------------------------------------------ session negotiator
\* The global chunkSize after a 201 to the init request carrying the header h:
\* `chunkSize, _ := strconv.ParseInt(...)` declares a new local inside the if
\* block, so the package variable keeps its value.
InitChunkSize(cur, h) == cur

\* A faulty variant: the pool is rotated as after a failed discovery.
NodeUnreachable_rotating == TrialFailed /\ updateMasterURL(mastersURLS)
\* "Can't connect to node": continue, without updateMasterURL.
NodeUnreachable == TrialFailed /\ UNCHANGED <<lastUsedMaster, masterURL>>

\* A faulty variant: the status is logged and the trial given up.
NotCreated_retried == TrialFailed
\* if res.StatusCode != http.StatusCreated { log.Fatal(res.StatusCode) }
NotCreated == pc' = "halted" /\ trial' = trial

\* sendVideoInitialRequest / sendModelInitialRequest / sendInitialRequest and
\* the orchestrator's reaction. The data node answers every session-open with
\* an ID it has not used before.
sendInitialRequest ==
  /\ pc = "init"
  /\ \/ /\ pc' = "halted"                       \* getFileSize fails: log.Fatal
        /\ UNCHANGED <<trial, id, session, chunkSize, lastUsedMaster, masterURL>>
     \/ /\ session' = [session EXCEPT !.asked = TRUE, !.status = 0]
        /\ NodeUnreachable                      \* client.Do fails
        /\ UNCHANGED <<id, chunkSize>>
     \/ \E st \in {StatusOK, StatusOther} :      \* status is not 201
          /\ session' = [session EXCEPT !.asked = TRUE, !.status = st]
          /\ NotCreated
          /\ UNCHANGED <<id, chunkSize, lastUsedMaster, masterURL>>
     \/ \E h \in {Absent} \cup ChunkHdrs :      \* 201 with ID and Max-Request-Size
          /\ session' = [session EXCEPT
                           !.asked = TRUE, !.status = StatusCreated, !.open = TRUE,
                           !.id = trial + 1,
                           !.filesize = FormatInt(SumSizes(uploadOrder, fsize)),
                           !.max = h]
          /\ id' = session'.id
          /\ chunkSize' = InitChunkSize(chunkSize, h)
          /\ pc' = "upload" /\ trial' = trial
          /\ UNCHANGED <<lastUsedMaster, masterURL>>
  /\ UNCHANGED <<inputs, mastersURLS, uploadURL,
                 idx, buflen, offset, pos, req, stored, honest, resynced,
                 lastExch, limit, acked, eofSeen, ret, nAppends, attempts>>

\* -------------------------------------------------- chunked transfer engine
\* uploadFiles returns err from the given line; its locals go out of scope and
\* the orchestrator decides.
Return(err, line) ==
  /\ ret' = [err |-> err, line |-> line]
  /\ FreshLocals
  /\ AfterUpload(err)

\* uploadFiles, entry: buffer := make([]byte, chunkSize); offset := int64(0)
uploadFiles_enter ==
  /\ pc = "upload"
  /\ IF chunkSize < 0
     THEN pc' = "panic" /\ UNCHANGED <<buflen, offset, idx>>
     ELSE pc' = "open" /\ buflen' = chunkSize /\ offset' = 0 /\ idx' = 0
  /\ UNCHANGED <<inputs, globals, trial, id, pos, req, observed, attempts>>

\* for idx, fileName := range uploadOrder { file, err := os.Open(...) ... }
\* and `return nil` after the loop. A failed Open leaves file nil and
\* file.Name() panics.
uploadFiles_open ==
  /\ pc = "open"
  /\ \/ /\ idx < Len(uploadOrder)
        /\ pos' = 0 /\ pc' = "read"
        /\ UNCHANGED <<trial, id, idx, buflen, offset, req, ret>>
     \/ /\ idx < Len(uploadOrder)
        /\ pc' = "panic"
        /\ UNCHANGED <<trial, id, idx, buflen, offset, pos, req, ret>>
     \/ /\ idx >= Len(uploadOrder)
        /\ Return("nil", 233)
  /\ UNCHANGED <<inputs, globals, session, stored, honest, resynced, lastExch,
                 limit, acked, eofSeen, nAppends, attempts>>

\* if idx == len(modelUploadOrder)-1: end of the last file
IsLastFile(i) == i = Len(modelUploadOrder) - 1

\* One pass of the inner loop up to client.Do: read a chunk; on end-of-file
\* return or go to the next file; otherwise send the append request. With
\* bounded, a trial sends at most MaxAppends appends; without, the count of
\* appends stays at MaxAppends once it is reached.
ReadStep(bounded) ==
  /\ pc = "read"
  /\ LET label == uploadOrder[idx + 1]
         size == fsize[label]
         n == ReadLen(buflen, pos, size)
     IN \/ /\ Return("read", 192)                  \* Read fails, not with io.EOF
           /\ UNCHANGED <<eofSeen, nAppends>>
        \/ /\ ReadEOF(buflen, pos, size)
           /\ eofSeen' = eofSeen \cup {idx + 1}
           /\ IF IsLastFile(idx)
              THEN Return("EOF", 186)
              ELSE /\ idx' = idx + 1 /\ pc' = "open"
                   /\ UNCHANGED <<trial, id, buflen, offset, pos, req, ret>>
           /\ UNCHANGED nAppends
        \/ /\ ~ReadEOF(buflen, pos, size)
           /\ bounded => nAppends < MaxAppends
           /\ req' = [sent |-> TRUE, url |-> uploadURL, id |-> id,
                      offset |-> FormatInt(offset),
                      body |-> SubSeq(Content(label, size), pos + 1, pos + n),
                      file |-> idx + 1, limit |-> limit]
           /\ pos' = pos + n
           /\ nAppends' = Min(nAppends + 1, MaxAppends)
           /\ pc' = "await"
           /\ UNCHANGED <<trial, id, idx, buflen, offset, ret, eofSeen>>
  /\ UNCHANGED <<inputs, globals, session, stored, honest, resynced, lastExch,
                 limit, acked, attempts>>

uploadFiles_read == ReadStep(TRUE)

\* The same pass with no bound on the number of appends of a trial.
uploadFiles_loop == ReadStep(FALSE)

\* What client.Do can hand back for an append: no response (status 0, err set),
\* 200, 201, or another status with any combination of the two headers; the
\* Offset values offered include the data node's true byte count.
AppendAnswers ==
  {[status |-> st, off |-> Absent, max |-> Absent] :
     st \in {0, StatusOK, StatusCreated}}
  \cup [status : {StatusOther},
        off : {Absent} \cup OffsetHdrs
              \cup {Num(Len(stored) + k) : k \in 0..Len(req.body)},
        max : {Absent} \cup ChunkHdrs]

\* A faulty variant: 201 is not told apart from 200.
Reaction_no201(r) ==
  CASE r.status = 0 -> "transport"
    [] r.status \in {StatusOK, StatusCreated} -> "ack"
    [] r.status \notin {0, StatusOK, StatusCreated} /\ Present(r.off) -> "resync"
    [] r.status \notin {0, StatusOK, StatusCreated} /\ ~Present(r.off)
         /\ Present(r.max) -> "resize"
    [] OTHER -> "abort"
\* A faulty variant: Max-Request-Size is looked at before Offset.
Reaction_sizeFirst(r) ==
  CASE r.status = 0 -> "transport"
    [] r.status = StatusOK -> "ack"
    [] r.status = StatusCreated -> "created"
    [] r.status \notin {0, StatusOK, StatusCreated} /\ Present(r.max) -> "resize"
    [] r.status \notin {0, StatusOK, StatusCreated} /\ ~Present(r.max)
         /\ Present(r.off) -> "resync"
    [] OTHER -> "abort"
\* The branch of lines 203-227 an answer takes.
Reaction(r) ==
  CASE r.status = 0 -> "transport"
    [] r.status = StatusOK -> "ack"
    [] r.status = StatusCreated -> "created"
    [] r.status \notin {0, StatusOK, StatusCreated} /\ Present(r.off) -> "resync"
    [] r.status \notin {0, StatusOK, StatusCreated} /\ ~Present(r.off)
         /\ Present(r.max) -> "resize"
    [] OTHER -> "abort"

\* A faulty variant: the acknowledged bytes are not counted.
AdvanceOffset_dropped(off, bytesread) == off
\* offset += int64(bytesread)
AdvanceOffset(off, bytesread) == off + bytesread

\* A faulty variant: the old buffer is kept.
ResizeBuffer_kept(oldlen, newsize) == oldlen
\* buffer = make([]byte, chunkSize) after a chunk-size correction
ResizeBuffer(oldlen, newsize) == newsize

\* `return err` at line 226: err is client.Do's error, nil on this path.
AbortErr == "nil"

\* The data node, as far as it keeps to the protocol: it accepts an append only
\* at its own byte count, completes exactly when it holds Filesize bytes, and
\* reports in Offset the bytes it holds (it may have kept part of a body it
\* rejects).
NodeHonest(r) ==
  LET n == Len(stored)
      m == Len(req.body)
      match == req.offset = Num(n)
      total == ParseInt(session.filesize)
  IN CASE Reaction(r) = "ack" -> match /\ n + m < total
       [] Reaction(r) = "created" -> match /\ n + m = total
       [] Reaction(r) = "resync" ->
            /\ r.off.k = "num"
            /\ r.off.v >= n
            /\ r.off.v <= (IF match THEN n + m ELSE n)
       [] OTHER -> TRUE

NodeStored(r) ==
  CASE Reaction(r) \in {"ack", "created"} -> stored \o req.body
    [] Reaction(r) = "resync" -> stored \o SubSeq(req.body, 1, r.off.v - Len(stored))
    [] OTHER -> stored

\* The answer to the append in flight and lines 203-229 on it.
uploadFiles_response ==
  /\ pc = "await"
  /\ \E r \in AppendAnswers :
       /\ honest' = (honest /\ NodeHonest(r))
       /\ stored' = IF honest' THEN NodeStored(r) ELSE <<>>
       /\ resynced' = (resynced \/ (Reaction(r) = "resync" /\ honest'))
       /\ lastExch' = [sent |-> TRUE, offset |-> req.offset, len |-> Len(req.body),
                       status |-> r.status, off |-> r.off, max |-> r.max]
       /\ limit' = IF Reaction(r) = "resize" THEN r.max ELSE limit
       /\ acked' = IF Reaction(r) \in {"ack", "created"}
                   THEN [acked EXCEPT ![req.file] =
                           Min(@ + Len(req.body), MaxAppends * MaxFileSize)]
                   ELSE acked
       /\ CASE Reaction(r) = "transport" ->
                 Return("transport", 205) /\ UNCHANGED chunkSize
            [] Reaction(r) = "ack" ->
                 /\ offset' = AdvanceOffset(offset, Len(req.body))
                 /\ pc' = "read"
                 /\ UNCHANGED <<trial, id, idx, buflen, pos, req, ret, chunkSize>>
            [] Reaction(r) = "created" ->
                 Return("nil", 210) /\ UNCHANGED chunkSize
            [] Reaction(r) = "resync" ->
                 /\ offset' = ParseInt(r.off)
                 /\ pos' = Seek(pos, offset')
                 /\ pc' = "read"
                 /\ UNCHANGED <<trial, id, idx, buflen, req, ret, chunkSize>>
            [] Reaction(r) = "resize" ->
                 /\ chunkSize' = ParseInt(r.max)
                 /\ IF chunkSize' < 0
                    THEN pc' = "panic" /\ UNCHANGED <<buflen, pos>>
                    ELSE /\ buflen' = ResizeBuffer(buflen, chunkSize')
                         /\ pos' = Seek(pos, offset)
                         /\ pc' = "read"
                 /\ UNCHANGED <<trial, id, idx, offset, req, ret>>
            [] OTHER ->
                 Return(AbortErr, 226) /\ UNCHANGED chunkSize
  /\ UNCHANGED <<inputs, mastersURLS, lastUsedMaster, masterURL, uploadURL,
                 session, eofSeen, nAppends, attempts>>

Next ==
  \/ main
  \/ updateUploadURL
  \/ sendInitialRequest
  \/ uploadFiles_enter
  \/ uploadFiles_open
  \/ uploadFiles_read
  \/ uploadFiles_response

\* A video upload against one master.
InitVideo == InitWith({1}, {"video"}, MaxFileSize, {{"dn1"}})
SpecVideo == InitVideo /\ [][Next]_vars

\* A model upload against one master.
InitModel == InitWith({1}, {"model"}, MaxModelFileSize, {{"dn1"}})
SpecModel == InitModel /\ [][Next]_vars

\* A video or a model upload against one master.
InitTransfer == InitVideo \/ InitModel
SpecTransfer == InitTransfer /\ [][Next]_vars

\* Any pool of masters, for a video of at most one byte.
InitPool == InitWith(0..MaxMasters, {"video", "other"}, 1, {{"dn1"}})
SpecPool == InitPool /\ [][Next]_vars

\* A video of at most one byte against a cluster of two data nodes.
InitNodes == InitWith({1}, {"video"}, 1, {{"dn1", "dn2"}})
SpecNodes == InitNodes /\ [][Next]_vars

\* The upload with no bound on the appends of a trial.
NextLoop ==
  \/ main
  \/ updateUploadURL
  \/ sendInitialRequest
  \/ uploadFiles_enter
  \/ uploadFiles_open
  \/ uploadFiles_loop
  \/ uploadFiles_response

\* The process is one goroutine that always takes its next step, and every
\* request it sends comes back, with a response or with an error: the next
\* step, whichever it is, is taken as long as there is one.
InitLoop == InitWith({1}, {"video"}, 1, {{"dn1"}})
SpecLoop == InitLoop /\ [][NextLoop]_vars /\ WF_vars(NextLoop)

\* ------------------------------------------------------------------ claims
Returned == ret.err # "none"
Completed == ret.line = 210        \* an append of this trial was answered 201
AllFiles == 1..Len(uploadOrder)

\* C1: when end-of-file was reached on the last file of the manifest and no
\* append of the trial was answered 201, uploadFiles returns a non-nil error
\* and the upload is not reported successful.
C1_EofWithoutCompletionFails ==
  (Returned /\ Len(uploadOrder) \in eofSeen /\ ~Completed)
    => (ret.err # "nil" /\ pc # "success")

\* C2: an append answered by a status other than 200 and 201 with neither an
\* Offset nor a Max-Request-Size header makes uploadFiles return a non-nil
\* error, and the trial is not reported successful.
C2_BareStatusFails ==
  (Returned /\ lastExch.sent /\ lastExch.status \notin {0, StatusOK, StatusCreated}
     /\ ~Present(lastExch.off) /\ ~Present(lastExch.max))
    => (ret.err # "nil" /\ pc # "success")

\* C3: when the 201 to the session-open carried Max-Request-Size = N (N a
\* positive number), the transfer's buffer has N bytes and every append body
\* has at most N bytes, until a chunk-size correction changes it.
C3_InitChunkSizeAdopted ==
  (session.open /\ session.max.k = "num" /\ session.max.v >= 1)
    => /\ (pc \in {"open", "read", "await"} /\ ~Present(limit))
            => buflen = session.max.v
       /\ (req.sent /\ ~Present(req.limit)) => Len(req.body) <= session.max.v

\* The offset the last server event leaves: the acknowledged bytes added after
\* a 200, the Offset header's value after an offset correction, unchanged after
\* a chunk-size correction.
OffsetAfter(e) ==
  IF e.status = StatusOK THEN ParseInt(e.offset) + e.len
  ELSE IF Present(e.off) THEN ParseInt(e.off)
  ELSE ParseInt(e.offset)

\* C4: the Offset header of an append is 0 for the first append of the trial
\* and otherwise the value the last server event left, also across the move
\* from one manifest file to the next.
C4_OffsetFollowsServer ==
  pc = "await" =>
    req.offset = FormatInt(IF lastExch.sent THEN OffsetAfter(lastExch) ELSE 0)

\* The first append of the second file carries the offset reached at the end of
\* the first.
C4_Witness ==
  /\ pc = "await" /\ req.file = 2 /\ lastExch.sent /\ lastExch.status = StatusOK
  /\ req.offset = Num(fsize["model"]) /\ fsize["model"] > 0

\* C5: when the data node keeps to the protocol, rejects some append with an
\* Offset header equal to the bytes it holds, and later sends the completion
\* status, it holds the manifest's files concatenated in order.
C5_ResyncKeepsStream ==
  (honest /\ resynced /\ Completed) => stored = Concat(uploadOrder, fsize)

\* A video of two bytes: the data node keeps the first byte of the first
\* append and rejects it with Offset 1; the replay from 1 completes the file.
C5_Witness ==
  /\ honest /\ resynced /\ Completed /\ pc = "success"
  /\ mode = "video" /\ nAppends = 2 /\ lastExch.offset = Num(1)
  /\ Len(stored) = 2 /\ stored = Concat(uploadOrder, fsize)

\* C6: for a transfer uploadFiles reports successful, the bytes of the
\* acknowledged appends of each manifest file add up to the file's size. Stated
\* for the runs where the data node keeps to the protocol and corrects no
\* offset, which the claim covers.
C6_AckedBytesAreFileSizes ==
  (ret.err = "nil" /\ honest /\ ~resynced)
    => \A i \in AllFiles : acked[i] = fsize[uploadOrder[i]]

\* C7: after a chunk-size correction to N every append body has at most N
\* bytes, until another chunk-size correction.
C7_BodyWithinCorrectedSize ==
  (req.sent /\ Present(req.limit)) => Len(req.body) <= ParseInt(req.limit)

\* A two-byte video sent one byte at a time after a correction to 1.
C7_Witness ==
  /\ pc = "await" /\ req.limit = Num(1) /\ Len(req.body) = 1
  /\ fsize["video"] = 2 /\ lastExch.len = 2

\* C8: an append answered 201 ends uploadFiles at once with success: nothing
\* more is read, opened or sent in the trial, and the process stays ended.
C8_CreatedStopsAtOnce ==
  [][/\ (pc = "await" /\ lastExch'.sent /\ lastExch'.status = StatusCreated)
          => (pc' = "success" /\ ret' = [err |-> "nil", line |-> 210]
              /\ nAppends' = nAppends /\ eofSeen' = eofSeen /\ trial' = trial)
     /\ pc = "success" => (pc' = "success" /\ nAppends' = nAppends)]_vars

\* The first append of a model upload answered 201 with all three files unsent
\* beyond it.
C8_Witness ==
  /\ pc = "success" /\ Completed /\ nAppends = 1 /\ eofSeen = {}
  /\ mode = "model" /\ fsize["config"] > 0 /\ fsize["code"] > 0

\* C9: files are sent in manifest order: while the engine is at file j every
\* earlier file has been read to its end and no later one, an append carries
\* bytes of file j only, and the loop runs out only with every file read to
\* its end.
C9_ManifestOrder ==
  /\ pc \in {"open", "read", "await"} => eofSeen = 1..idx
  /\ pc = "await" =>
       /\ req.file = idx + 1
       /\ \A k \in 1..Len(req.body) : OwnerOf(req.body[k]) = idx + 1
  /\ ret.line = 233 => eofSeen = AllFiles

\* An append of the third file, the first two read to their ends.
C9_Witness ==
  /\ pc = "await" /\ mode = "model" /\ req.file = 3 /\ Len(req.body) = 1
  /\ eofSeen = {1, 2} /\ fsize["model"] = 1 /\ fsize["config"] = 1

\* (The masters of a pool of n are numbered 1..n in command-line order, so the
\* master after master m is mastersURLS[(m % n) + 1].)
\* C10: once the pool is set up the cursor is a valid index and masterURL is
\* the master under it; consecutive failed discoveries go to consecutive
\* masters modulo the pool size, so any k = pool size consecutive failures
\* reach k different masters.
C10_RoundRobin ==
  LET n == Len(mastersURLS)
  IN n > 0 =>
       /\ lastUsedMaster \in 0..(n - 1)
       /\ masterURL = mastersURLS[lastUsedMaster + 1]
       /\ \A i \in 1..(Len(attempts) - 1) :
            attempts[i + 1] = mastersURLS[(attempts[i] % n) + 1]
       /\ (attempts # <<>> /\ pc = "discover") =>
            masterURL = mastersURLS[(attempts[Len(attempts)] % n) + 1]
       /\ \A i \in 1..(Len(attempts) - n + 1) :
            Cardinality({attempts[j] : j \in i..(i + n - 1)}) = n

\* Three failed discoveries in a row over a pool of three.
C10_Witness ==
  /\ Len(mastersURLS) = 3 /\ Len(attempts) = 3
  /\ {attempts[j] : j \in 1..3} = {1, 2, 3}

\* A step of the orchestrator in which the discovery of the current trial fails.
DiscoveryFails == pc = "discover" /\ trial' = trial + 1

\* C11: the master pool is rotated, by exactly one position, in the step in
\* which a trial's discovery fails, and at no other moment after start-up: a
\* trial that fails in the session-open or in the transfer leaves the cursor
\* and the current master as they were.
C11_RotationOnlyOnDiscoveryFailure ==
  [][/\ DiscoveryFails =>
          /\ lastUsedMaster' = (lastUsedMaster + 1) % Len(mastersURLS)
          /\ masterURL' = mastersURLS[lastUsedMaster' + 1]
     /\ (pc # "main" /\ ~DiscoveryFails) => UNCHANGED <<lastUsedMaster, masterURL>>]_vars

\* Third trial of a three-master pool: one of the two failed trials failed in
\* discovery, the last one when the data node did not answer the session-open.
C11_Witness ==
  /\ pc = "discover" /\ trial = 2 /\ Len(mastersURLS) = 3
  /\ lastUsedMaster = 1 /\ masterURL = mastersURLS[2]
  /\ session.asked /\ session.status = 0

\* C12: the trial counter only steps by one; a trial is running only while at
\* most defaultMaxRetries trials have failed; and "File not uploaded" is the
\* end exactly when defaultMaxRetries + 1 trials have failed.
C12_AtMostFourTrials ==
  [][/\ trial' \in {trial, trial + 1}
     /\ trial' \in 0..(defaultMaxRetries + 1)
     /\ (pc' \in {"discover", "init", "upload", "open", "read", "await"})
          => trial' <= defaultMaxRetries
     /\ (pc' = "fatal") <=> (trial' = defaultMaxRetries + 1)]_vars

\* Four failed trials of mixed kinds: two discoveries failed (the cursor is two
\* further) and the last trial failed in the transfer.
C12_Witness ==
  /\ pc = "fatal" /\ trial = defaultMaxRetries + 1
  /\ Len(mastersURLS) = 3 /\ lastUsedMaster = 2
  /\ ret.err = "transport"

\* C13: the step in which uploadFiles returns nil ends the orchestrator in
\* success, whichever trial it is, and nothing happens after success: no
\* further request, no rotation, no fatal exit.
C13_SuccessEndsUpload ==
  [][/\ (ret.err # "nil" /\ ret'.err = "nil") => (pc' = "success" /\ trial' = trial)
     /\ pc # "success"]_vars

\* Success of the third trial, by a 201.
C13_Witness == pc = "success" /\ trial = 2 /\ Completed

\* C14: a session-open answered with a status other than 201 halts the process
\* in that step (no append, no further trial, no rotation) and nothing follows;
\* a session-open that gets no answer costs one trial and no more.
C14_InitStatusIsFatal ==
  [][/\ (pc = "init" /\ session'.asked /\ session'.status \notin {0, StatusCreated})
          => /\ pc' = "halted" /\ trial' = trial
             /\ UNCHANGED <<lastUsedMaster, masterURL, nAppends, req>>
     /\ pc # "halted"
     /\ (pc = "init" /\ session'.asked /\ session'.status = 0)
          => /\ trial' = trial + 1
             /\ pc' = IF trial < defaultMaxRetries THEN "discover" ELSE "fatal"]_vars

\* The second trial's session-open is answered with a status that is not 201.
C14_Witness ==
  /\ pc = "halted" /\ trial = 1 /\ trial < defaultMaxRetries
  /\ session.asked /\ session.status = StatusOther /\ ~req.sent

\* The bytes of the manifest's logical stream from offset o (counted from 0).
StreamAt(o, n) == SubSeq(Concat(uploadOrder, fsize), o + 1, o + n)

\* C15: against a data node that answers truthfully, the body of every append
\* of a model upload is the part of the concatenated stream of the three files
\* that begins at the request's Offset header, also after an offset correction
\* received while the second or third file is being sent.
C15_BodyIsStreamAtOffset ==
  (pc = "await" /\ mode = "model" /\ honest /\ req.offset.v >= 0)
    => req.body = StreamAt(req.offset.v, Len(req.body))

\* The process has ended: success, "File not uploaded", another log.Fatal, or
\* a run-time panic.
Ended == pc \in {"success", "fatal", "halted", "panic"}

\* C16: whatever the servers answer, every trial comes to its end and so does
\* the upload as a whole: it ends in success or in a fatal exit.
C16_UploadEnds == <>Ended

\* The answer of the step is a status other than 200 and 201 with an Offset
\* header, or with a Max-Request-Size header and no Offset header.
OffsetCorrected ==
  /\ pc = "await" /\ lastExch'.status \notin {0, StatusOK, StatusCreated}
  /\ Present(lastExch'.off)
SizeCorrected ==
  /\ pc = "await" /\ lastExch'.status \notin {0, StatusOK, StatusCreated}
  /\ ~Present(lastExch'.off) /\ Present(lastExch'.max)

\* C17: an offset correction sets the offset to the value of the header and
\* leaves the chunk size and the buffer alone, also when a Max-Request-Size
\* header comes with it; a chunk-size correction sets the chunk size to the
\* value of the header and leaves the offset alone. In neither case is the
\* length of the rejected body added to the offset, and in neither case does
\* uploadFiles return or the trial end: the loop goes on to the next read.
C17_CorrectionsChangeWhatTheyName ==
  [][/\ OffsetCorrected =>
          /\ offset' = ParseInt(lastExch'.off)
          /\ UNCHANGED <<chunkSize, buflen, idx, id, trial, ret>>
          /\ pc' = "read" /\ ~Returned'
     /\ SizeCorrected =>
          /\ chunkSize' = ParseInt(lastExch'.max)
          /\ UNCHANGED <<offset, idx, id, trial, ret>>
          /\ ~Returned'
          /\ chunkSize' >= 0 => (pc' = "read" /\ buflen' = chunkSize')]_vars

\* The two-byte chunk of a video was answered with both headers: the
\* offset is the header's, chunk size and buffer are as before.
C17_Witness ==
  /\ pc = "read" /\ lastExch.sent /\ lastExch.status = StatusOther
  /\ lastExch.off = Num(1) /\ lastExch.max = Num(0)
  /\ lastExch.offset = Num(0) /\ lastExch.len = 2
  /\ offset = 1 /\ chunkSize = DefaultChunkSize /\ buflen = DefaultChunkSize

\* C18: the chunk size is a positive number at every moment, and no append
\* request has an empty body.
C18_ChunkSizePositive ==
  /\ chunkSize > 0
  /\ req.sent => Len(req.body) > 0

\* C19: the first read of every trial uses a buffer of the default chunk size,
\* or of the size the trial's own session-open announced: a size corrected
\* during a trial that failed is not carried into the next trial.
C19_ChunkSizePerTrial ==
  (pc = "open" /\ idx = 0)
    => \/ buflen = DefaultChunkSize
       \/ Present(session.max) /\ buflen = ParseInt(session.max)

\* C20: every append is sent within a trial whose discovery and session-open
\* succeeded, to the address that trial's discovery returned and with the ID
\* that trial's session-open returned, and the first append of a trial has
\* Offset 0.
C20_AppendsUseOwnTrialSession ==
  pc = "await" =>
    /\ session.node \in cluster /\ session.status = StatusCreated /\ session.open
    /\ req.url = session.node
    /\ req.id = session.id
    /\ ~lastExch.sent => req.offset = Num(0)

\* The first append of the second trial, whose discovery returned dn2 and whose
\* session-open returned the second ID the cluster gave out.
C20_Witness ==
  /\ pc = "await" /\ trial = 1 /\ ~lastExch.sent
  /\ session.node = "dn2" /\ req.url = "dn2"
  /\ session.id = 2 /\ req.id = 2 /\ req.offset = Num(0)

====
